---- MODULE Spec2Model ----
(***************************************************************************)
(* The USDA FoodData Central scripts as state machines.                    *)
(*                                                                         *)
(*   usda_food_list.py  lists the catalog page by page and writes          *)
(*                      food_ids.json                                      *)
(*   usda_foods.py      reads food_ids.json, skips the ids already in the  *)
(*                      spreadsheet, fetches each food's details and       *)
(*                      appends one row per food                           *)
(*   nutrient_list.py   lists the catalog and fetches the details in one   *)
(*                      script                                             *)
(*                                                                         *)
(* Spec      : runs of usda_foods.main_method over one catalog file.       *)
(* SpecList  : one run of usda_food_list.main_method or of                 *)
(*             nutrient_list.main_method.                                  *)
(* SpecProjection : one run of usda_foods.main_method over one food, with  *)
(*             every detail payload of up to MaxAttrs attributes.          *)
(* SpecCadence : one run of usda_foods.main_method or of                   *)
(*             nutrient_list.main_method over a catalog long enough for    *)
(*             the periodic save.                                          *)
(* SpecScripts : the runs of Spec and of SpecList together.                 *)
(*                                                                         *)
(* The HTTP server, the disk (whether a save succeeds) and the caller's    *)
(* arguments are the environment: every answer is a nondeterministic       *)
(* choice from a small set.                                                *)
(***************************************************************************)
EXTENDS Integers, Sequences, FiniteSets, TLC

(***************************************************************************)
(* Bounds of the model.                                                    *)
(***************************************************************************)
\* fdcIds of the catalog are 0..MaxId; 0 stands for a missing, null or 0 id
MaxId == 2
\* entries in food_ids.json
MaxCatalog == 2
\* invocations of usda_foods.main_method one after the other
MaxRuns == 2
\* amount_foods_to_process is None or 0..MaxAmount
MaxAmount == 1
\* attributes in one detail payload
MaxAttrs == 2
\* the listing asks for pages 1..MaxPages at most: page MaxPages is answered
\* with an answer that ends the listing
MaxPages == 3
\* entries on one catalog page
MaxPageLen == 1

\* the length of the catalog of the long runs, which pass save_interval
CadenceFoods == 252

\* the entries at the head of that catalog whose answers are left open
CadenceFree == 2

(***************************************************************************)
(* Values.  A spreadsheet cell holds an integer or a text; the two are     *)
(* kept apart as openpyxl keeps them apart.                                *)
(***************************************************************************)
IntCell(n) == [int |-> n]

StrCell(s) == [str |-> s]

Range(s) == {s[i] : i \in 1..Len(s)}

\* a file on disk: absent, unreadable, or readable with a content
AbsentFile == [state |-> "absent"]

CorruptFile == [state |-> "corrupt"]

OkFile(c) == [state |-> "ok", content |-> c]

(***************************************************************************)
(* The nutrient table (usda_foods.py:7-33, nutrient_list.py:6).  The keys  *)
(* are Python numbers, some fractional (269.3, 205.2): a key is modelled   *)
(* by its exact value in tenths.                                           *)
(***************************************************************************)
nutrients_numbers ==
    << 2030, 2040, 2050, 2080, 2690, 2910, 6010, 6060, 6450, 6460, 6050,
       2100, 2110, 2140, 2120, 2130, 2870, 9570, 9580, 2693, 2980, 6930,
       6950, 2052, 2930 >>

nutrients_descriptions ==
    << "Protein", "Total lipid (fat)", "Carbohydrate, by difference",
       "Energy", "Total Sugars", "Fiber, total dietary", "Cholesterol",
       "Fatty acids, total saturated", "Fatty acids, total monounsaturated",
       "Fatty acids, total polyunsaturated", "Fatty acids, total trans",
       "Sucrose", "Glucose", "Maltose", "Fructose", "Lactose", "Galactose",
       "Energy (Atwater General Factors)",
       "Energy (Atwater Specific Factors)", "Sugars, Total",
       "Total fat (NLEA)", "Fatty acids, total trans-monoenoic",
       "Fatty acids, total trans-polyenoic", "Carbohydrate, by summation",
       "Total dietary fiber (AOAC 2011.25)" >>

\* the nutrient ids main_method is called with (usda_foods.py:230)
nutrient_ids == nutrients_numbers

\* the sentinel of a nutrient that is not in the payload
NA == StrCell("N/A")

\* ["fdcId", "description"] + nutrients_descriptions
HeaderRow ==
    <<StrCell("fdcId"), StrCell("description")>>
        \o [k \in 1..Len(nutrients_descriptions) |->
                StrCell(nutrients_descriptions[k])]

(***************************************************************************)
(* float(nutrient["nutrient"]["number"]): the payload gives the number as  *)
(* a text; float parses it, so "203" and "203.0" are the same number.      *)
(***************************************************************************)
NumberTexts == {"203", "203.0", "208", "269.3", "999"}

Float(s) ==
    CASE s = "203" -> 2030
      [] s = "203.0" -> 2030
      [] s = "208" -> 2080
      [] s = "269.3" -> 2693
      [] s = "999" -> 9990

(***************************************************************************)
(* Catalog entries.  Descriptions are texts; Python orders them as         *)
(* strings, which Alphabet lists in increasing order.                      *)
(***************************************************************************)
Alphabet == <<"Apple", "Banana", "Cherry", "Dates", "Eggs", "Figs">>

DescRank(s) == CHOOSE k \in 1..Len(Alphabet) : Alphabet[k] = s

\* the description of the food with id i: a higher id sorts earlier
DescriptionOf(i) == Alphabet[Len(Alphabet) - i]

Food(i) == [fdcId |-> i, description |-> DescriptionOf(i)]

Foods == {Food(i) : i \in 0..MaxId}

SeqsUpTo(S, n) == UNION {[1..k -> S] : k \in 0..n}

IsSortedByDescription(c) ==
    \A i, j \in 1..Len(c) :
        i < j => DescRank(c[i].description) <= DescRank(c[j].description)

\* what usda_food_list.py writes: entries sorted by description, an id
\* possibly more than once
Catalogs == {c \in SeqsUpTo(Foods, MaxCatalog) : IsSortedByDescription(c)}

(***************************************************************************)
(* Detail payloads and HTTP answers.                                       *)
(***************************************************************************)
Amounts == {IntCell(1), IntCell(2)}

\* one foodNutrients item, with or without an "amount"
Attributes ==
    {[number |-> t, amount |-> a] : t \in NumberTexts, a \in Amounts}
        \cup {[number |-> t] : t \in NumberTexts}

\* a detail body with the key (its list possibly empty) and one without it
Bodies(attrs) ==
    {[foodNutrients |-> l] : l \in attrs} \cup {[description |-> "no list"]}

\* raise_for_status() raises for these
ErrorStatuses == {404, 500, 429, 403, 503}

OkResponse(body) == [status |-> 200, body |-> body]

\* the body of an error answer: JSON with a "message", or not JSON at all
GenericErrorBody == [message |-> "request failed"]

AllShardsBody == [message |-> "search_phase_execution_exception: all shards failed"]

NotJson == [not_json |-> TRUE]

HttpError(s, b) == [status |-> s, body |-> b]

ErrorResponse(s) == HttpError(s, GenericErrorBody)

\* no answer at all: connection refused, timeout, DNS failure
TransportFailure == [transport |-> "ConnectionError"]

\* Python's None
PyNone == [none |-> TRUE]

\* a call that ended by raising exception e
Raised(e) == [raised |-> e]

IsRaised(v) == "raised" \in DOMAIN v

IsHttpError(r) == "status" \in DOMAIN r /\ r.status # 200

IsTransportFailure(r) == "transport" \in DOMAIN r

\* the payloads the runs of usda_foods meet: none, one or two attributes
\* of which the first is a requested nutrient with an amount
RunPayloads ==
    {<<>>,
     <<[number |-> "999", amount |-> IntCell(1)]>>,
     <<[number |-> "203", amount |-> IntCell(1)]>>,
     <<[number |-> "203"]>>,
     <<[number |-> "203", amount |-> IntCell(1)],
       [number |-> "203.0", amount |-> IntCell(2)]>>}

DetailResponses ==
    {OkResponse(b) : b \in Bodies(RunPayloads)}
        \cup {ErrorResponse(s) : s \in ErrorStatuses}
        \cup {TransportFailure}

VARIABLES
    food_ids_file,            \* food_ids.json
    output_file,              \* food_nutrition_data.xlsx on disk
    not_found_file,           \* not_found_food_ids.json
    pc,                       \* where the running script is
    run,                      \* the number of the current invocation
    amount_foods_to_process,  \* the argument of this invocation
    existing_fdc_ids,
    sheet,                    \* the rows of the workbook in memory
    filtered_food_data,
    pos,                      \* index of the loop's next food
    progress_counter,
    requested,                \* fdcIds a detail request was sent for, in order
    response,                 \* the answer to the last request
    food_details,             \* what the last fetch_food_details returned
    sent,                     \* requests sent by the current fetch call
    retries,                  \* the retries counter of the current fetch call
    error,                    \* the exception that ended the script, or ""
    outcome,                  \* what the last loop iteration did
    startup_output,           \* output_file as this invocation found it
    startup_not_found,        \* not_found_file as this invocation found it
    script,                   \* the script that is running
    page_number,
    all_food_list,
    food_list_response,       \* what the last fetch_food_list returned
    page_requests,            \* page numbers a list request was sent for
    empty_page,               \* the first page answered empty, 0 if none
    saves                     \* the workbook.save calls of this invocation

\* the variables only usda_foods.py has
foods_vars ==
    <<not_found_file, run, amount_foods_to_process, existing_fdc_ids,
      filtered_food_data, startup_output, startup_not_found>>

\* the variables only the listing scripts have
list_vars ==
    <<script, page_number, all_food_list, food_list_response, page_requests,
      empty_page>>

vars ==
    <<food_ids_file, output_file, pc, sheet, pos, progress_counter,
      requested, response, food_details, sent, retries, error, outcome,
      saves, foods_vars, list_vars>>


(***************************************************************************)
(* usda_foods.py                                                           *)
(***************************************************************************)
\* save_interval = 250  (usda_foods.py:117, nutrient_list.py:73)
save_interval == 250

\* str(row[0].value).isdigit(): a non-negative integer prints as digits;
\* every text the scripts write in the first column ("fdcId") does not
CellIsDigit(c) == IF "int" \in DOMAIN c THEN c.int >= 0 ELSE FALSE

\* int(row[0].value)
CellToInt(c) == c.int

\* get_existing_fdc_ids reading the second column instead of the first
get_existing_fdc_ids_second_column(f) ==
    IF f.state = "ok"
    THEN {CellToInt(f.content[i][2]) :
            i \in {j \in 1..Len(f.content) :
                     /\ Len(f.content[j]) > 1
                     /\ CellIsDigit(f.content[j][2])}}
    ELSE {}

\* get_existing_fdc_ids(filename): the ids in the first column of the file;
\* empty when the file is absent or cannot be loaded
get_existing_fdc_ids(f) ==
    IF f.state = "ok"
    THEN {CellToInt(f.content[i][1]) :
            i \in {j \in 1..Len(f.content) :
                     /\ Len(f.content[j]) > 0
                     /\ CellIsDigit(f.content[j][1])}}
    ELSE {}

\* a new workbook with the header whatever the file holds
open_workbook_fresh(f) == <<HeaderRow>>

\* main_method, lines 120-139: the rows of the existing workbook, or a new
\* workbook holding the header when the file is absent or cannot be loaded
open_workbook(f) == IF f.state = "ok" THEN f.content ELSE <<HeaderRow>>

\* append_not_found_id without the test "fdc_id not in not_found_ids"
append_not_found_id_unchecked(f, fdc_id) ==
    LET not_found_ids == IF f.state = "ok" THEN f.content ELSE <<>>
    IN  OkFile(Append(not_found_ids, fdc_id))

\* append_not_found_id(fdc_id): the file after the call
append_not_found_id(f, fdc_id) ==
    LET not_found_ids == IF f.state = "ok" THEN f.content ELSE <<>>
    IN  IF fdc_id \notin Range(not_found_ids)
        THEN OkFile(Append(not_found_ids, fdc_id))
        ELSE f

\* the filter of lines 151-153
filter_new_foods(food_data, existing) ==
    LET IsNew(food) == food.fdcId \notin existing
    IN  SelectSeq(food_data, IsNew)

Min(a, b) == IF a <= b THEN a ELSE b

Max(a, b) == IF a >= b THEN a ELSE b

\* the slice left out: every food is kept whatever the amount
slice_foods_uncapped(foods, amount) == foods

\* filtered_food_data[:amount_foods_to_process]
slice_foods(foods, amount) ==
    IF ~amount.given THEN foods
    ELSE IF amount.m >= 0 THEN SubSeq(foods, 1, Min(amount.m, Len(foods)))
    ELSE SubSeq(foods, 1, Max(Len(foods) + amount.m, 0))

NoAmount == [given |-> FALSE, m |-> 0]

Amount(m) == [given |-> TRUE, m |-> m]

\* lines 176-183: an item without "amount" gets the amount "N/A"
food_nutrients_of(food_values) ==
    [i \in 1..Len(food_values) |->
        IF "amount" \in DOMAIN food_values[i]
        THEN [number |-> food_values[i].number,
              amount |-> food_values[i].amount]
        ELSE [number |-> food_values[i].number, amount |-> NA]]

\* lines 184-195: the items whose number is one of nutrient_ids, in payload
\* order, each with its number as a float
nutrient_list_of(food_nutrients) ==
    LET Wanted(n) == Float(n.number) \in Range(nutrient_ids)
        kept == SelectSeq(food_nutrients, Wanted)
    IN  [i \in 1..Len(kept) |->
            [nutrient_number |-> Float(kept[i].number),
             amount |-> kept[i].amount]]

\* lines 198-200: nut_dict[x["nutrient number"]] = x["amount"], item by item
RECURSIVE nut_dict_of(_)
nut_dict_of(nutrient_list) ==
    IF nutrient_list = <<>>
    THEN [n \in {} |-> NA]
    ELSE LET d == nut_dict_of(SubSeq(nutrient_list, 1, Len(nutrient_list) - 1))
             x == nutrient_list[Len(nutrient_list)]
         IN  [n \in DOMAIN d \cup {x.nutrient_number} |->
                 IF n = x.nutrient_number THEN x.amount ELSE d[n]]

\* lines 201-205 without the else branch: no "N/A" for a missing nutrient
nutrient_vals_without_sentinel(nut_dict) ==
    LET found == SelectSeq(nutrients_numbers, LAMBDA n : n \in DOMAIN nut_dict)
    IN  [k \in 1..Len(found) |-> nut_dict[found[k]]]

\* lines 201-205: one value per nutrients_numbers entry, in its order
nutrient_vals_to_append(nut_dict) ==
    [k \in 1..Len(nutrients_numbers) |->
        IF nutrients_numbers[k] \in DOMAIN nut_dict
        THEN nut_dict[nutrients_numbers[k]]
        ELSE NA]

\* lines 174, 206: the row of one food
row_data_of(fdc_id, description, nutrient_list) ==
    <<IntCell(fdc_id), StrCell(description)>>
        \o nutrient_vals_to_append(nut_dict_of(nutrient_list))

\* fetch_food_details(api_key, fdc_id, nutrient_ids) of usda_foods.py, on
\* the answer r: what it returns or that it raises, and the dead-letter file
fetch_food_details(r, fdc_id, nf) ==
    IF IsTransportFailure(r)
    THEN [raised |-> FALSE, value |-> PyNone,
          not_found |-> append_not_found_id(nf, fdc_id)]
    ELSE IF r.status = 200
    THEN [raised |-> FALSE, value |-> r.body, not_found |-> nf]
    ELSE IF r.status = 404 \/ r.status = 500
    THEN [raised |-> FALSE, value |-> PyNone,
          not_found |-> append_not_found_id(nf, fdc_id)]
    ELSE [raised |-> TRUE, value |-> PyNone, not_found |-> nf]

\* every id passing for a usable one
usable_id_always(fdc_id) == TRUE

\* "if fdc_id:" with fdc_id = food.get("fdcId"): false for a missing key
\* (None), for null and for 0, which the catalog entries carry as 0
usable_id(fdc_id) == fdc_id # 0

\* food_details and FOOD_NUTRIENTS_KEY in food_details and
\* food_details[FOOD_NUTRIENTS_KEY]
has_food_nutrients(details) ==
    /\ details # PyNone
    /\ "foodNutrients" \in DOMAIN details
    /\ details.foodNutrients # <<>>

\* workbook.save(output_filename): the file afterwards
save_workbook(rows, f, ok) == IF ok THEN OkFile(rows) ELSE f

\* the periodic save left out
save_never(counter) == FALSE

\* if progress_counter % save_interval == 0
save_due(counter) == counter % save_interval = 0

\* one call of workbook.save: the periodic one of the loop or the final one
\* after it, and whether it succeeded
SaveCall(kind, ok) == [kind |-> kind, ok |-> ok]

\* nothing in memory yet: the state of a script that has not started
NotStarted ==
    /\ pc = "idle"
    /\ sheet = <<>>
    /\ pos = 0
    /\ progress_counter = 0
    /\ requested = <<>>
    /\ response = PyNone
    /\ food_details = PyNone
    /\ sent = 0
    /\ retries = 0
    /\ error = ""
    /\ outcome = "none"
    /\ amount_foods_to_process = NoAmount
    /\ existing_fdc_ids = {}
    /\ filtered_food_data = <<>>
    /\ page_number = 0
    /\ all_food_list = <<>>
    /\ food_list_response = PyNone
    /\ page_requests = <<>>
    /\ empty_page = 0
    /\ saves = <<>>

Init ==
    /\ script = "usda_foods"
    /\ food_ids_file \in {AbsentFile, CorruptFile} \cup {OkFile(c) : c \in Catalogs}
    /\ output_file \in {AbsentFile, CorruptFile}
    /\ not_found_file \in {AbsentFile, CorruptFile}
    /\ run = 1
    /\ startup_output = AbsentFile
    /\ startup_not_found = AbsentFile
    /\ NotStarted

\* main_method is called: lines 115-139
OpenOutput ==
    /\ script = "usda_foods"
    /\ UNCHANGED saves
    /\ pc = "idle"
    /\ \E amount \in {NoAmount} \cup {Amount(m) : m \in 0..MaxAmount} :
           amount_foods_to_process' = amount
    /\ existing_fdc_ids' = get_existing_fdc_ids(output_file)
    /\ sheet' = open_workbook(output_file)
    /\ progress_counter' = 0
    /\ startup_output' = output_file
    /\ startup_not_found' = not_found_file
    /\ pc' = "opened"
    /\ UNCHANGED <<food_ids_file, output_file, not_found_file, run,
                   filtered_food_data, pos, requested, response,
                   food_details, sent, retries, error, outcome, list_vars>>

\* lines 141-153: read food_ids.json (return when it cannot be read) and
\* keep the foods whose id is not in the spreadsheet
LoadCatalog ==
    /\ script = "usda_foods"
    /\ UNCHANGED saves
    /\ pc = "opened"
    /\ IF food_ids_file.state = "ok"
       THEN /\ filtered_food_data' =
                   filter_new_foods(food_ids_file.content, existing_fdc_ids)
            /\ pc' = "filtered"
       ELSE /\ pc' = "returned"
            /\ UNCHANGED filtered_food_data
    /\ UNCHANGED <<food_ids_file, output_file, not_found_file, run,
                   amount_foods_to_process, existing_fdc_ids, sheet, pos,
                   progress_counter, requested, response, food_details,
                   sent, retries, error, outcome, startup_output,
                   startup_not_found, list_vars>>

\* line 159
CapFoods ==
    /\ script = "usda_foods"
    /\ UNCHANGED saves
    /\ pc = "filtered"
    /\ filtered_food_data' =
           slice_foods(filtered_food_data, amount_foods_to_process)
    /\ pos' = 1
    /\ pc' = "loop"
    /\ UNCHANGED <<food_ids_file, output_file, not_found_file, run,
                   amount_foods_to_process, existing_fdc_ids, sheet,
                   progress_counter, requested, response, food_details,
                   sent, retries, error, outcome, startup_output,
                   startup_not_found, list_vars>>

\* lines 164-168 and 63-65: the next food; one without a usable id is
\* passed over, for the others the detail request is sent
NextFood ==
    /\ script = "usda_foods"
    /\ UNCHANGED saves
    /\ pc = "loop"
    /\ pos <= Len(filtered_food_data)
    /\ LET fdc_id == filtered_food_data[pos].fdcId
       IN  IF usable_id(fdc_id)
           THEN /\ requested' = Append(requested, fdc_id)
                /\ sent' = 1
                /\ pc' = "await"
                /\ UNCHANGED <<pos, outcome>>
           ELSE /\ pos' = pos + 1
                /\ outcome' = "skipped"
                /\ sent' = 0
                /\ UNCHANGED <<requested, pc>>
    /\ response' = PyNone
    /\ food_details' = PyNone
    /\ UNCHANGED <<food_ids_file, output_file, not_found_file, run,
                   amount_foods_to_process, existing_fdc_ids, sheet,
                   filtered_food_data, progress_counter, retries, error,
                   startup_output, startup_not_found, list_vars>>

\* lines 66-84 and 169-216: the answer r arrives and the food is handled;
\* save_ok is whether a save, if one is due, succeeds
HandleDetails(r, save_ok) ==
    /\ script = "usda_foods"
    /\ pc = "await"
    /\ response' = r
    /\ LET food == filtered_food_data[pos]
           fetched == fetch_food_details(r, food.fdcId, not_found_file)
           nutrient_list ==
               nutrient_list_of(food_nutrients_of(fetched.value.foodNutrients))
       IN  /\ not_found_file' = fetched.not_found
           /\ IF fetched.raised
              THEN /\ pc' = "crashed"
                   /\ error' = "HTTPError"
                   /\ outcome' = "raised"
                   /\ food_details' = Raised("HTTPError")
                   /\ UNCHANGED <<sheet, progress_counter, output_file, pos,
                                  saves>>
              ELSE /\ pc' = "loop"
                   /\ pos' = pos + 1
                   /\ food_details' = fetched.value
                   /\ UNCHANGED error
                   /\ IF has_food_nutrients(fetched.value)
                         /\ nutrient_list # <<>>
                      THEN /\ sheet' =
                                  Append(sheet,
                                         row_data_of(food.fdcId,
                                                     food.description,
                                                     nutrient_list))
                           /\ progress_counter' = progress_counter + 1
                           /\ outcome' = "row"
                           /\ output_file' =
                                  IF save_due(progress_counter')
                                  THEN save_workbook(sheet', output_file, save_ok)
                                  ELSE output_file
                           /\ saves' =
                                  IF save_due(progress_counter')
                                  THEN Append(saves, SaveCall("periodic", save_ok))
                                  ELSE saves
                      ELSE /\ outcome' =
                                  IF fetched.value = PyNone
                                  THEN "failed" ELSE "no row"
                           /\ UNCHANGED <<sheet, progress_counter, output_file,
                                          saves>>
    /\ UNCHANGED <<food_ids_file, run, amount_foods_to_process,
                   existing_fdc_ids, filtered_food_data, requested, sent,
                   retries, startup_output, startup_not_found, list_vars>>

\* lines 218-224: the save after the loop
FinalSave(save_ok) ==
    /\ script = "usda_foods"
    /\ pc = "loop"
    /\ pos > Len(filtered_food_data)
    /\ output_file' = save_workbook(sheet, output_file, save_ok)
    /\ saves' = Append(saves, SaveCall("final", save_ok))
    /\ pc' = "done"
    /\ UNCHANGED <<food_ids_file, sheet, pos, progress_counter, requested,
                   response, food_details, sent, retries, error, outcome,
                   foods_vars, list_vars>>

\* the process has ended and the script is started again: nothing in
\* memory survives, the three files do
NextRun ==
    /\ script = "usda_foods"
    /\ pc \in {"done", "returned", "crashed"}
    /\ run < MaxRuns
    /\ run' = run + 1
    /\ pc' = "idle"
    /\ sheet' = <<>>
    /\ pos' = 0
    /\ progress_counter' = 0
    /\ requested' = <<>>
    /\ response' = PyNone
    /\ food_details' = PyNone
    /\ sent' = 0
    /\ retries' = 0
    /\ error' = ""
    /\ outcome' = "none"
    /\ amount_foods_to_process' = NoAmount
    /\ existing_fdc_ids' = {}
    /\ filtered_food_data' = <<>>
    /\ saves' = <<>>
    /\ UNCHANGED <<food_ids_file, output_file, not_found_file,
                   startup_output, startup_not_found, list_vars>>

Next ==
    \/ OpenOutput
    \/ LoadCatalog
    \/ CapFoods
    \/ NextFood
    \/ \E r \in DetailResponses, save_ok \in BOOLEAN : HandleDetails(r, save_ok)
    \/ \E save_ok \in BOOLEAN : FinalSave(save_ok)
    \/ NextRun

Spec == Init /\ [][Next]_vars

(***************************************************************************)
(* usda_food_list.py and nutrient_list.py                                  *)
(***************************************************************************)
\* max_retries=3  (nutrient_list.py:10 and :40, usda_food_list.py:4)
max_retries == 3

\* Python values a fetch function returns, kept apart by their type
PyList(l) == [list |-> l]

PyDict(d) == [dict |-> d]

PyStr(t) == [str |-> t]

\* one page of the listing endpoint
Pages == SeqsUpTo(Foods, MaxPageLen)

\* a JSON array as the body of an answer
JsonArray(l) == [items |-> l]

ListResponses ==
    {OkResponse(JsonArray(p)) : p \in Pages}
        \cup {HttpError(500, b) : b \in {AllShardsBody, GenericErrorBody, NotJson}}
        \cup {ErrorResponse(s) : s \in ErrorStatuses \ {500}}
        \cup {TransportFailure}

\* "message" in error_json and "all shards failed" in error_json["message"]
has_all_shards_failed(error_json) ==
    /\ "message" \in DOMAIN error_json
    /\ error_json.message = AllShardsBody.message

\* fetch_food_list(api_key, page_number) on the answer r to its request
\* (nutrient_list.py:10-38, usda_food_list.py:4-32).  Every path through the
\* body of "while retries < max_retries" returns or raises: after a 500
\* without the marker, retries is incremented, the function sleeps and then
\* reaches "return response.json()" (line 36), which returns the error body
\* or raises when the body is not JSON.
fetch_food_list(r) ==
    IF IsTransportFailure(r) THEN PyNone
    ELSE IF r.status = 200 THEN PyList(r.body.items)
    ELSE IF r.status = 500
    THEN IF r.body = NotJson THEN Raised("JSONDecodeError")
         ELSE IF has_all_shards_failed(r.body) THEN PyStr("all_shards_failed")
         ELSE PyDict(r.body)
    ELSE Raised("HTTPError")

\* the answers after which the listing loop asks for the next page
ListGoesOn(r) ==
    /\ ~IsTransportFailure(r)
    /\ \/ r.status = 200
       \/ r.status = 500 /\ r.body = GenericErrorBody

ListAnswersAt(page) ==
    IF page < MaxPages THEN ListResponses
    ELSE {r \in ListResponses : ~ListGoesOn(r)}

\* all_food_list.extend(d) with a dict d: its keys are appended
DictKeys(d) == <<[dict_key |-> "message"]>>

\* an item of all_food_list that is a catalog entry
IsFoodItem(x) == "description" \in DOMAIN x

\* sorted(l, key=lambda item: item["description"]): a stable sort, so the
\* item at index i goes behind the items with a smaller description and
\* the earlier items with the same description
sorted_by_description(l) ==
    LET rank == [i \in 1..Len(l) |-> DescRank(l[i].description)]
        place == [i \in 1..Len(l) |->
                    1 + Cardinality({j \in 1..Len(l) :
                                       \/ rank[j] < rank[i]
                                       \/ rank[j] = rank[i] /\ j < i})]
    IN  [k \in 1..Len(l) |-> l[CHOOSE i \in 1..Len(l) : place[i] = k]]

\* fetch_food_details(api_key, fdc_id, nutrient_ids) of nutrient_list.py on
\* the answer r (lines 40-65): as in fetch_food_list, a 500 increments
\* retries and then reaches "return response.json()" (line 63)
nl_fetch_food_details(r) ==
    IF IsTransportFailure(r) THEN PyNone
    ELSE IF r.status = 200 THEN r.body
    ELSE IF r.status = 404 THEN PyNone
    ELSE IF r.status = 500
    THEN IF r.body = NotJson THEN Raised("JSONDecodeError") ELSE r.body
    ELSE Raised("HTTPError")

\* the try of lines 110-113 never reaching its except
has_all_amounts_always(food_values) == TRUE

\* nutrient_list.py:110-113: x["amount"] of every item, or the bare except
has_all_amounts(food_values) ==
    \A i \in 1..Len(food_values) : "amount" \in DOMAIN food_values[i]

NlDetailResponses ==
    DetailResponses \cup {HttpError(500, NotJson)}

InitList ==
    /\ script \in {"usda_food_list", "nutrient_list"}
    /\ food_ids_file = AbsentFile
    /\ output_file \in {AbsentFile, CorruptFile}
    /\ not_found_file = AbsentFile
    /\ run = 1
    /\ startup_output = AbsentFile
    /\ startup_not_found = AbsentFile
    /\ NotStarted

\* main_method is called: usda_food_list.py:38-39, nutrient_list.py:71-92
ListStart ==
    /\ script \in {"usda_food_list", "nutrient_list"}
    /\ UNCHANGED saves
    /\ pc = "idle"
    /\ page_number' = 1
    /\ all_food_list' = <<>>
    /\ progress_counter' = 0
    /\ sheet' = IF script = "nutrient_list"
                THEN open_workbook(output_file) ELSE sheet
    /\ startup_output' = output_file
    /\ pc' = "listing"
    /\ UNCHANGED <<food_ids_file, output_file, pos, requested, response,
                   food_details, sent, retries, error, outcome,
                   not_found_file, run, amount_foods_to_process,
                   existing_fdc_ids, filtered_food_data, startup_not_found,
                   script, food_list_response, page_requests, empty_page>>

\* fetch_food_list is called and sends its request (lines 12-16)
ListRequest ==
    /\ script \in {"usda_food_list", "nutrient_list"}
    /\ UNCHANGED saves
    /\ pc = "listing"
    /\ page_number <= MaxPages
    /\ retries' = 0
    /\ sent' = IF retries' < max_retries THEN 1 ELSE 0
    /\ page_requests' = Append(page_requests, page_number)
    /\ response' = PyNone
    /\ pc' = "list_await"
    /\ UNCHANGED <<food_ids_file, output_file, sheet, pos, progress_counter,
                   requested, food_details, error, outcome, foods_vars,
                   script, page_number, all_food_list, food_list_response,
                   empty_page>>

\* the answer r arrives, fetch_food_list ends and the loop body handles
\* what it returned (nutrient_list.py:17-38 and 94-99)
ListAnswer(r) ==
    /\ script \in {"usda_food_list", "nutrient_list"}
    /\ UNCHANGED saves
    /\ pc = "list_await"
    /\ response' = r
    /\ LET value == fetch_food_list(r)
       IN  /\ food_list_response' = value
           /\ retries' \in
                  IF IsHttpError(r) /\ r.status = 500 /\ ~has_all_shards_failed(r.body)
                  THEN IF r.body = NotJson THEN {retries, retries + 1}
                       ELSE {retries + 1}
                  ELSE {retries}
           /\ empty_page' =
                  IF empty_page = 0 /\ value = PyList(<<>>)
                  THEN page_number ELSE empty_page
           /\ IF IsRaised(value)
              THEN /\ pc' = "crashed"
                   /\ error' = value.raised
                   /\ UNCHANGED <<all_food_list, page_number>>
              ELSE IF value = PyStr("all_shards_failed")
              THEN /\ pc' = "listed"
                   /\ UNCHANGED <<all_food_list, page_number, error>>
              ELSE IF value = PyNone
              THEN /\ pc' = "crashed"
                   /\ error' = "TypeError"
                   /\ UNCHANGED <<all_food_list, page_number>>
              ELSE /\ all_food_list' =
                          all_food_list \o
                              (IF "list" \in DOMAIN value
                               THEN value.list ELSE DictKeys(value.dict))
                   /\ page_number' = page_number + 1
                   /\ pc' = "listing"
                   /\ UNCHANGED error
    /\ UNCHANGED <<food_ids_file, output_file, sheet, pos, progress_counter,
                   requested, food_details, sent, outcome, foods_vars,
                   script, page_requests>>

\* usda_food_list.py:47-59: the entries, sorted by description, are written
\* to food_ids.json; a failed write is reported and the script ends
WriteFoodIds(save_ok) ==
    /\ UNCHANGED saves
    /\ pc = "listed"
    /\ script = "usda_food_list"
    /\ IF \A i \in 1..Len(all_food_list) : IsFoodItem(all_food_list[i])
       THEN /\ food_ids_file' =
                   IF save_ok
                   THEN OkFile(sorted_by_description(all_food_list))
                   ELSE food_ids_file
            /\ pc' = "done"
            /\ UNCHANGED error
       ELSE /\ pc' = "crashed"
            /\ error' = "TypeError"
            /\ UNCHANGED food_ids_file
    /\ UNCHANGED <<output_file, sheet, pos, progress_counter, requested,
                   response, food_details, sent, retries, outcome,
                   foods_vars, list_vars>>

\* nutrient_list.py:100-101
SortFoods ==
    /\ UNCHANGED saves
    /\ pc = "listed"
    /\ script = "nutrient_list"
    /\ IF \A i \in 1..Len(all_food_list) : IsFoodItem(all_food_list[i])
       THEN /\ all_food_list' = sorted_by_description(all_food_list)
            /\ pos' = 1
            /\ pc' = "loop"
            /\ UNCHANGED error
       ELSE /\ pc' = "crashed"
            /\ error' = "TypeError"
            /\ UNCHANGED <<all_food_list, pos>>
    /\ UNCHANGED <<food_ids_file, output_file, sheet, progress_counter,
                   requested, response, food_details, sent, retries,
                   outcome, foods_vars, script, page_number,
                   food_list_response, page_requests, empty_page>>

\* nutrient_list.py:102-106 and 42-46: the next food; one without a usable
\* id is passed over, for the others the detail request is sent
NlNextFood ==
    /\ UNCHANGED saves
    /\ pc = "loop"
    /\ script = "nutrient_list"
    /\ pos <= Len(all_food_list)
    /\ LET fdc_id == all_food_list[pos].fdcId
       IN  IF usable_id(fdc_id)
           THEN /\ requested' = Append(requested, fdc_id)
                /\ retries' = 0
                /\ sent' = IF retries' < max_retries THEN 1 ELSE 0
                /\ pc' = "await"
                /\ UNCHANGED <<pos, outcome>>
           ELSE /\ pos' = pos + 1
                /\ outcome' = "skipped"
                /\ sent' = 0
                /\ UNCHANGED <<requested, pc, retries>>
    /\ response' = PyNone
    /\ food_details' = PyNone
    /\ UNCHANGED <<food_ids_file, output_file, sheet, progress_counter,
                   error, foods_vars, list_vars>>

\* nutrient_list.py:47-65 and 107-137: the answer r arrives and the food is
\* handled; save_ok is whether a save, if one is due, succeeds
NlHandleDetails(r, save_ok) ==
    /\ pc = "await"
    /\ script = "nutrient_list"
    /\ response' = r
    /\ LET food == all_food_list[pos]
           value == nl_fetch_food_details(r)
           nutrient_list ==
               nutrient_list_of(food_nutrients_of(value.foodNutrients))
       IN  /\ food_details' = value
           /\ retries' = IF IsHttpError(r) /\ r.status = 500
                         THEN retries + 1 ELSE retries
           /\ IF IsRaised(value)
              THEN /\ pc' = "crashed"
                   /\ error' = value.raised
                   /\ outcome' = "raised"
                   /\ UNCHANGED <<sheet, progress_counter, output_file, pos,
                                  saves>>
              ELSE IF ~has_food_nutrients(value)
              THEN /\ pc' = "loop"
                   /\ pos' = pos + 1
                   /\ outcome' = IF value = PyNone THEN "failed" ELSE "no row"
                   /\ UNCHANGED <<sheet, progress_counter, output_file, error,
                                  saves>>
              ELSE IF ~has_all_amounts(value.foodNutrients)
              THEN /\ pc' = "final"
                   /\ outcome' = "break"
                   /\ UNCHANGED <<sheet, progress_counter, output_file, pos,
                                  error, saves>>
              ELSE /\ pc' = "loop"
                   /\ pos' = pos + 1
                   /\ sheet' =
                          IF nutrient_list # <<>>
                          THEN Append(sheet,
                                      row_data_of(food.fdcId, food.description,
                                                  nutrient_list))
                          ELSE sheet
                   /\ outcome' = IF nutrient_list # <<>> THEN "row" ELSE "no row"
                   /\ progress_counter' = progress_counter + 1
                   /\ output_file' =
                          IF save_due(progress_counter')
                          THEN save_workbook(sheet', output_file, save_ok)
                          ELSE output_file
                   /\ saves' =
                          IF save_due(progress_counter')
                          THEN Append(saves, SaveCall("periodic", save_ok))
                          ELSE saves
                   /\ UNCHANGED error
    /\ UNCHANGED <<food_ids_file, requested, sent, foods_vars, list_vars>>

\* nutrient_list.py:139-143: the save after the loop
NlFinalSave(save_ok) ==
    /\ script = "nutrient_list"
    /\ \/ pc = "final"
       \/ pc = "loop" /\ pos > Len(all_food_list)
    /\ output_file' = save_workbook(sheet, output_file, save_ok)
    /\ saves' = Append(saves, SaveCall("final", save_ok))
    /\ pc' = "done"
    /\ UNCHANGED <<food_ids_file, sheet, pos, progress_counter, requested,
                   response, food_details, sent, retries, error, outcome,
                   foods_vars, list_vars>>

NextList ==
    \/ ListStart
    \/ ListRequest
    \/ \E r \in ListAnswersAt(page_number) : ListAnswer(r)
    \/ \E save_ok \in BOOLEAN : WriteFoodIds(save_ok)
    \/ SortFoods
    \/ NlNextFood
    \/ \E r \in NlDetailResponses, save_ok \in BOOLEAN :
           NlHandleDetails(r, save_ok)
    \/ \E save_ok \in BOOLEAN : NlFinalSave(save_ok)

SpecList == InitList /\ [][NextList]_vars

(***************************************************************************)
(* One food, every payload of up to MaxAttrs attributes: the runs of       *)
(* usda_foods.main_method that show how a payload becomes a row.           *)
(***************************************************************************)
ProjectionResponses ==
    {OkResponse(b) : b \in Bodies(SeqsUpTo(Attributes, MaxAttrs))}

InitProjection ==
    /\ script = "usda_foods"
    /\ food_ids_file \in {OkFile(<<Food(i)>>) : i \in 1..MaxId}
    /\ output_file \in {AbsentFile, CorruptFile}
    /\ not_found_file = AbsentFile
    /\ run = 1
    /\ startup_output = AbsentFile
    /\ startup_not_found = AbsentFile
    /\ NotStarted

NextProjection ==
    \/ OpenOutput
    \/ LoadCatalog
    \/ CapFoods
    \/ NextFood
    \/ \E r \in ProjectionResponses, save_ok \in BOOLEAN :
           HandleDetails(r, save_ok)
    \/ \E save_ok \in BOOLEAN : FinalSave(save_ok)

SpecProjection == InitProjection /\ [][NextProjection]_vars

(***************************************************************************)
(* Long runs.  A catalog of CadenceFoods entries, so that the progress     *)
(* counter passes save_interval and the periodic save of the loop is made. *)
(* The first CadenceFree entries get any answer; every later entry gets a  *)
(* payload with one requested nutrient.  nutrient_list.py gets the catalog *)
(* from the listing in two pages, usda_foods.py from food_ids.json.        *)
(***************************************************************************)
CadenceFood(i) == [fdcId |-> i, description |-> Alphabet[Len(Alphabet)]]

CadenceCatalog == [i \in 1..CadenceFoods |-> CadenceFood(i)]

\* the answer with one requested nutrient and its amount
ProteinResponse ==
    OkResponse([foodNutrients |-> <<[number |-> "203", amount |-> IntCell(1)]>>])

\* the answers to the detail request that is waiting
CadenceAnswers(all) ==
    IF pc # "await" THEN {}
    ELSE IF requested[Len(requested)] <= CadenceFree THEN all
    ELSE {ProteinResponse}

\* the answers to the list request that is waiting: the catalog in two
\* pages, then the "all shards failed" answer
CadenceListAnswers ==
    LET half == CadenceFoods \div 2
    IN  IF page_number = 1
        THEN {OkResponse(JsonArray(SubSeq(CadenceCatalog, 1, half)))}
        ELSE IF page_number = 2
        THEN {OkResponse(JsonArray(SubSeq(CadenceCatalog, half + 1, CadenceFoods)))}
        ELSE {HttpError(500, AllShardsBody)}

InitCadence ==
    /\ script \in {"usda_foods", "nutrient_list"}
    /\ food_ids_file =
           IF script = "usda_foods" THEN OkFile(CadenceCatalog) ELSE AbsentFile
    /\ output_file = AbsentFile
    /\ not_found_file = AbsentFile
    /\ run = 1
    /\ startup_output = AbsentFile
    /\ startup_not_found = AbsentFile
    /\ NotStarted

NextCadence ==
    \/ OpenOutput
    \/ LoadCatalog
    \/ CapFoods
    \/ NextFood
    \/ \E r \in CadenceAnswers(DetailResponses), save_ok \in BOOLEAN :
           HandleDetails(r, save_ok)
    \/ \E save_ok \in BOOLEAN : FinalSave(save_ok)
    \/ ListStart
    \/ ListRequest
    \/ \E r \in CadenceListAnswers : ListAnswer(r)
    \/ SortFoods
    \/ NlNextFood
    \/ \E r \in CadenceAnswers(NlDetailResponses), save_ok \in BOOLEAN :
           NlHandleDetails(r, save_ok)
    \/ \E save_ok \in BOOLEAN : NlFinalSave(save_ok)

SpecCadence == InitCadence /\ [][NextCadence]_vars

(***************************************************************************)
(* The three scripts side by side: every run of Spec and every run of      *)
(* SpecList.                                                               *)
(***************************************************************************)
InitScripts == Init \/ InitList

NextScripts == Next \/ NextList

SpecScripts == InitScripts /\ [][NextScripts]_vars

(***************************************************************************)
(* Properties of usda_foods.py                                             *)
(***************************************************************************)
\* the ids in the first column of a table
TableIds(f) ==
    IF f.state = "ok"
    THEN {n \in 0..MaxId : \E i \in 1..Len(f.content) : f.content[i][1] = IntCell(n)}
    ELSE {}

\* the ids in a dead-letter file
DeadLetterIds(f) == IF f.state = "ok" THEN Range(f.content) ELSE {}

NoRepeats(l) == \A i, j \in 1..Len(l) : l[i] = l[j] => i = j

\* the invocation is past its startup
Started == pc \notin {"idle"}

\* the food the last answer was for
HandledFood ==
    IF pc \in {"await", "crashed"}
    THEN filtered_food_data[pos]
    ELSE filtered_food_data[pos - 1]

\* the last answer was a failure of the detail request
DetailFailed == IsHttpError(response) \/ IsTransportFailure(response)

\* C1: after any sequence of runs over the same catalog and output path no
\* id is in more than one row of the output table, also when the catalog
\* lists an id more than once.
C1_NoDuplicateIds ==
    output_file.state = "ok" =>
        \A i, j \in 1..Len(output_file.content) :
            output_file.content[i][1] = output_file.content[j][1] => i = j

\* C2: with S the ids the output table holds when a run starts, the foods
\* the filter passes on are exactly the catalog entries whose id is not in
\* S, in catalog order, and no detail request of the run is for an id of S.
C2_ResumeFilter ==
    LET S == TableIds(startup_output)
        NotInS(food) == food.fdcId \notin S
    IN  /\ pc = "filtered" =>
               filtered_food_data = SelectSeq(food_ids_file.content, NotInS)
        /\ Started => \A k \in 1..Len(requested) : requested[k] \notin S

\* a run that starts with some catalog ids in the table and some not
C2_Witness ==
    /\ pc = "filtered"
    /\ \E k \in 1..Len(food_ids_file.content) :
           food_ids_file.content[k].fdcId \in TableIds(startup_output)
    /\ filtered_food_data # <<>>

\* C3: an id that is in the dead-letter file when a run starts is removed
\* by the filter and no detail request is sent for it in that run.
C3_DeadLettersNotRetried ==
    Started =>
        \A id \in DeadLetterIds(startup_not_found) :
            /\ \A k \in 1..Len(filtered_food_data) :
                   filtered_food_data[k].fdcId # id
            /\ \A k \in 1..Len(requested) : requested[k] # id

\* C6: an appended row is [id, description] followed by one value per
\* nutrient of the table, in the table's order: an amount the payload
\* reports for that nutrient when the payload has it, "N/A" when it has
\* not; attributes outside the table add nothing.
C6_Projection ==
    outcome = "row" =>
        LET row == sheet[Len(sheet)]
            attrs == response.body.foodNutrients
            Reported(a) == IF "amount" \in DOMAIN a THEN a.amount ELSE NA
            Hits(k) == {j \in 1..Len(attrs) :
                          Float(attrs[j].number) = nutrients_numbers[k]}
        IN  /\ Len(row) = 2 + Len(nutrients_numbers)
            /\ row[1] = IntCell(HandledFood.fdcId)
            /\ row[2] = StrCell(HandledFood.description)
            /\ \A k \in 1..Len(nutrients_numbers) :
                   IF Hits(k) = {}
                   THEN row[2 + k] = NA
                   ELSE \E j \in Hits(k) : row[2 + k] = Reported(attrs[j])

\* a row made from a payload with a requested nutrient and an unknown one
C6_Witness ==
    /\ outcome = "row"
    /\ response.body.foodNutrients =
           <<[number |-> "999", amount |-> IntCell(2)],
             [number |-> "269.3", amount |-> IntCell(1)]>>
    /\ sheet[Len(sheet)][2 + 20] = IntCell(1)
    /\ sheet[Len(sheet)][2 + 1] = NA

\* C7: when a payload has several attributes with the same nutrient number,
\* each with an amount, the row carries the amount of the first of them.
C7_FirstOccurrenceWins ==
    outcome = "row" =>
        LET row == sheet[Len(sheet)]
            attrs == response.body.foodNutrients
            Reported(a) == IF "amount" \in DOMAIN a THEN a.amount ELSE NA
            Hits(k) == {j \in 1..Len(attrs) :
                          Float(attrs[j].number) = nutrients_numbers[k]}
        IN  \A k \in 1..Len(nutrients_numbers) :
                (/\ Hits(k) # {}
                 /\ \A j \in Hits(k) : "amount" \in DOMAIN attrs[j]) =>
                    \E j \in Hits(k) :
                        /\ \A i \in Hits(k) : j <= i
                        /\ row[2 + k] = Reported(attrs[j])

\* C8: the dead-letter list never holds an id twice, and a call of
\* append_not_found_id for an id already in the list leaves the file as it
\* is.
C8_DeadLetterIdempotent ==
    [][/\ not_found_file'.state = "ok" => NoRepeats(not_found_file'.content)
       /\ (/\ pc = "await"
           /\ filtered_food_data[pos].fdcId \in DeadLetterIds(not_found_file))
              => not_found_file' = not_found_file]_vars

\* a failed detail request for an id the dead-letter file held already
C8_Witness ==
    /\ pc = "loop"
    /\ outcome = "failed"
    /\ HandledFood.fdcId \in DeadLetterIds(startup_not_found)

\* C10: whatever the failure of a detail request (404, 5xx, 429, another
\* status, no answer), the run does not crash and the food is dead-lettered.
C10_PerEntryContainment ==
    (Started /\ DetailFailed) =>
        /\ pc # "crashed"
        /\ HandledFood.fdcId \in DeadLetterIds(not_found_file)

\* the invocation has ended: normally, by the early return of an unreadable
\* catalog file, or by an exception nothing caught
RunEnded == pc \in {"done", "returned", "crashed"}

\* the data rows the table held when the invocation opened it
StartupRows == open_workbook(startup_output)

\* C11: a run that has opened the output table makes the final save of it
\* before it ends, on normal completion and on every abort path (exception
\* of one entry, unreadable catalog file), so the rows appended in the run
\* are written.
C11_FinalFlush ==
    (RunEnded /\ sheet # <<>>) =>
        \E k \in 1..Len(saves) : saves[k].kind = "final"

\* the rows appended to the table by the current invocation
RowsAppended == Len(sheet) - Len(StartupRows)

\* the periodic saves the current invocation has made
PeriodicSaves == Len(SelectSeq(saves, LAMBDA c : c.kind = "periodic"))

\* C12: the progress counter is the number of rows the run has appended
\* (an entry that gave no row does not advance it), and the periodic saves
\* made so far are one for every multiple of save_interval it has reached.
C12_FlushCadence ==
    (Started /\ sheet # <<>>) =>
        /\ progress_counter = RowsAppended
        /\ PeriodicSaves = progress_counter \div save_interval

\* C13: a row is appended only when a requested nutrient was found in the
\* payload, and every appended row holds at least one nutrient value that
\* is not "N/A", also when a matching attribute has no amount.
C13_NoAllSentinelRows ==
    outcome = "row" =>
        LET row == sheet[Len(sheet)]
            attrs == response.body.foodNutrients
        IN  /\ \E j \in 1..Len(attrs) :
                   Float(attrs[j].number) \in Range(nutrients_numbers)
            /\ \E k \in 1..Len(nutrients_numbers) : row[2 + k] # NA

\* the catalog entries the filter lets through, before the cap
FilteredCatalog ==
    LET NotInS(food) == food.fdcId \notin TableIds(startup_output)
    IN  SelectSeq(food_ids_file.content, NotInS)

\* the ids of the entries of l that have a usable id, in l's order
UsableIds(l) ==
    LET usable == SelectSeq(l, LAMBDA food : food.fdcId # 0)
    IN  [k \in 1..Len(usable) |-> usable[k].fdcId]

\* C17: with a maximum m >= 0 the entries the run processes are the first
\* min(m, n) entries of the filtered list of length n, in its order; with
\* no maximum they are all n entries.
C17_PerRunCap ==
    (script = "usda_foods" /\ pc \in {"loop", "await", "done", "crashed"}) =>
        LET n == Len(FilteredCatalog)
            m == amount_foods_to_process.m
            cap == IF ~amount_foods_to_process.given THEN n
                   ELSE IF m <= n THEN m ELSE n
        IN  /\ filtered_food_data = SubSeq(FilteredCatalog, 1, cap)
            /\ requested = UsableIds(SubSeq(FilteredCatalog, 1,
                                            IF pc \in {"await", "crashed"}
                                            THEN pos ELSE pos - 1))
            /\ pc = "done" => pos = cap + 1

\* a run capped at one entry over a filtered list of two
C17_Witness ==
    /\ pc = "done"
    /\ amount_foods_to_process = Amount(1)
    /\ Len(FilteredCatalog) = 2
    /\ requested = <<FilteredCatalog[1].fdcId>>

\* l starts with the rows of p, in p's order
HasPrefix(l, p) == Len(p) <= Len(l) /\ SubSeq(l, 1, Len(p)) = p

\* the rows after the first n rows of l are rows the run made for foods it
\* requested
OnlyRunRowsAfter(l, n) ==
    \A i \in (n + 1)..Len(l) :
        \E k \in 1..Len(requested) : l[i][1] = IntCell(requested[k])

\* C18: when the output table is readable at startup the table in memory
\* and every table a save writes start with the rows found at startup, in
\* their order, followed only by rows appended in this run; when the file
\* is absent or unreadable the table starts as the header alone.
C18_AppendOnly ==
    [][(Started /\ script = "usda_foods") =>
           LET base == IF startup_output.state = "ok"
                       THEN startup_output.content ELSE <<HeaderRow>>
           IN  /\ HasPrefix(sheet, base)
               /\ OnlyRunRowsAfter(sheet, Len(base))
               /\ output_file' # output_file =>
                      /\ output_file'.state = "ok"
                      /\ HasPrefix(output_file'.content, base)
                      /\ OnlyRunRowsAfter(output_file'.content, Len(base))]_vars

\* a second run has saved a table that holds the rows of the first run and
\* a row of its own
C18_Witness ==
    /\ pc = "done"
    /\ startup_output.state = "ok"
    /\ Len(startup_output.content) > 1
    /\ output_file.state = "ok"
    /\ Len(output_file.content) > Len(startup_output.content)

\* the rows of the table in memory that no save has written: all but the
\* rows of the file on disk, or all but the header the run began with when
\* there is no readable file yet
UnsavedRows ==
    Len(sheet) - (IF output_file.state = "ok"
                  THEN Len(output_file.content) ELSE Len(StartupRows))

\* every workbook.save call of the run so far succeeded
AllSavesOk == \A k \in 1..Len(saves) : saves[k].ok

\* C19: while every save has succeeded, the rows appended in memory and not
\* yet written are fewer than save_interval at every point of the run; a
\* periodic save that fails is swallowed: the run goes on with the next
\* entry and no exception.
C19_BoundedLoss ==
    [][/\ (sheet' # <<>> /\ AllSavesOk') => UnsavedRows' < save_interval
       /\ (/\ Len(saves') > Len(saves)
           /\ saves'[Len(saves')] = SaveCall("periodic", FALSE))
              => (pc' = "loop" /\ error' = "" /\ sheet' # sheet)]_vars

\* a run that made its periodic save at save_interval rows and went on
C19_Witness ==
    /\ PeriodicSaves = 1
    /\ AllSavesOk
    /\ progress_counter > save_interval
    /\ UnsavedRows > 0

(***************************************************************************)
(* Properties of the listing scripts                                       *)
(***************************************************************************)
\* a fetch call has ended; its answer is in response
FetchEnded == pc \notin {"idle", "list_await", "await"} /\ response # PyNone

\* what the fetch call that ended last returned
LastFetchValue ==
    IF requested = <<>> THEN food_list_response ELSE food_details

\* a status that is not 2xx, 404, 429 or 5xx
FatalStatuses == {403}

\* the catalog the listing handed on: the content of food_ids.json, or the
\* sorted list nutrient_list.py iterates over
ListedCatalog ==
    IF script = "usda_food_list"
    THEN IF food_ids_file.state = "ok" THEN food_ids_file.content ELSE <<>>
    ELSE IF pc \in {"loop", "await", "final", "done"} THEN all_food_list
    ELSE <<>>

\* C14: the catalog the listing produces holds each id at most once, also
\* when the listing returned an id on two pages.
C14_CatalogDeduplicated ==
    \A i, j \in 1..Len(ListedCatalog) :
        (/\ ListedCatalog[i].fdcId # 0
         /\ ListedCatalog[i].fdcId = ListedCatalog[j].fdcId) => i = j

\* how often x is in the list l
CountIn(l, x) == Cardinality({i \in 1..Len(l) : l[i] = x})

\* m holds what l holds, each item as often, in the order of the descriptions
IsSortedCopy(m, l) ==
    /\ Len(m) = Len(l)
    /\ \A i \in 1..Len(l) : CountIn(m, l[i]) = CountIn(l, l[i])
    /\ \A i \in 1..Len(m) : IsFoodItem(m[i])
    /\ IsSortedByDescription(m)

\* the listing has gathered at least one catalog entry
SomeGathered == \E i \in 1..Len(all_food_list) : IsFoodItem(all_food_list[i])

\* C15: when a page request meets the "all shards failed" answer the listing
\* stops with everything gathered from the earlier pages, and the next stage
\* gets all of it, sorted by description: the iteration of nutrient_list.py,
\* or food_ids.json (unless writing the file fails).
C15_PartialCatalogKept ==
    [][/\ (pc = "list_await" /\ food_list_response' = PyStr("all_shards_failed"))
            => (pc' = "listed" /\ all_food_list' = all_food_list)
       /\ (pc = "listed" /\ script = "nutrient_list" /\ SomeGathered)
            => (pc' = "loop" /\ IsSortedCopy(all_food_list', all_food_list))
       /\ (pc = "listed" /\ script = "usda_food_list" /\ SomeGathered)
            => /\ pc' = "done"
               /\ \/ food_ids_file' = food_ids_file
                  \/ /\ food_ids_file'.state = "ok"
                     /\ IsSortedCopy(food_ids_file'.content, all_food_list)]_vars

\* the last detail request was answered 404 and the answer has been handled
NotFoundHandled ==
    /\ pc # "await"
    /\ requested # <<>>
    /\ IsHttpError(response)
    /\ response.status = 404

\* C16: a 404 on a detail request is not retried (one request for the
\* entry), the fetch returns None, the id is recorded in the dead-letter
\* file, no row is appended for it and the run goes on with the next entry.
C16_NotFoundHandling ==
    NotFoundHandled =>
        /\ sent = 1
        /\ food_details = PyNone
        /\ outcome = "failed"
        /\ pc \in {"loop", "done"}
        /\ requested[Len(requested)] \in DeadLetterIds(not_found_file)

\* the last detail request was answered with a payload in which some
\* attribute has no amount, and the answer has been handled
MalformedHandled ==
    /\ pc # "await"
    /\ requested # <<>>
    /\ "body" \in DOMAIN response
    /\ response.status = 200
    /\ has_food_nutrients(response.body)
    /\ \E j \in 1..Len(response.body.foodNutrients) :
           "amount" \notin DOMAIN response.body.foodNutrients[j]

\* the run has appended a row for the entry it requested last
RowForLastRequested ==
    \E i \in (Len(StartupRows) + 1)..Len(sheet) :
        sheet[i][1] = IntCell(requested[Len(requested)])

\* in the row appended last, the cell of a requested nutrient that the
\* payload reports once, without an amount, holds "N/A"
SentinelForMissingAmount ==
    LET row == sheet[Len(sheet)]
        attrs == response.body.foodNutrients
    IN  \A j \in 1..Len(attrs), k \in 1..Len(nutrients_numbers) :
            (/\ "amount" \notin DOMAIN attrs[j]
             /\ Float(attrs[j].number) = nutrients_numbers[k]
             /\ \A i \in 1..Len(attrs) :
                    Float(attrs[i].number) = nutrients_numbers[k] => i = j)
                => row[2 + k] = NA

\* C20: a payload attribute without an amount.  usda_foods.py projects it
\* with the amount "N/A" and goes on with that entry and the later ones;
\* nutrient_list.py leaves its loop at that entry: no row for it, no request
\* and no row for any later entry, and the final save is still made.
C20_MalformedAttribute ==
    [][/\ (script = "usda_foods" /\ MalformedHandled') =>
              /\ outcome' \in {"row", "no row"}
              /\ pc' \in {"loop", "done"}
              /\ pc' = "done" => pos' = Len(filtered_food_data') + 1
              /\ outcome' = "row" => SentinelForMissingAmount'
       /\ (script = "nutrient_list" /\ MalformedHandled') =>
              /\ outcome' = "break"
              /\ pc' \in {"final", "done"}
              /\ ~RowForLastRequested'
       /\ outcome = "break" =>
              /\ pc = "final"
              /\ pc' = "done"
              /\ sheet' = sheet
              /\ requested' = requested
              /\ Len(saves') = Len(saves) + 1
              /\ saves'[Len(saves')].kind = "final"]_vars

\* nutrient_list.py has left its loop at the second entry, with later
\* entries not looked at, and has saved the row of the first
C20_Witness ==
    /\ script = "nutrient_list"
    /\ outcome = "break"
    /\ pc = "done"
    /\ pos = 2
    /\ pos < Len(all_food_list)
    /\ RowsAppended = 1
    /\ output_file = OkFile(sheet)

\* the entries the iteration of the running script goes through
IteratedEntries ==
    IF script = "usda_foods" THEN filtered_food_data ELSE all_food_list

\* the iteration is at an entry whose fdcId is missing, null or 0
AtEntryWithoutId ==
    /\ pc = "loop"
    /\ script \in {"usda_foods", "nutrient_list"}
    /\ pos <= Len(IteratedEntries)
    /\ IteratedEntries[pos].fdcId = 0

\* C21: an entry whose fdcId is missing, null or 0 is passed over by the
\* iteration: no detail request is sent, no row is appended, the progress
\* counter stays as it is, nothing is added to the dead-letter file, and
\* the iteration is at the next entry.
C21_EntriesWithoutIdSkipped ==
    [][AtEntryWithoutId =>
           /\ requested' = requested
           /\ sent' = 0
           /\ sheet' = sheet
           /\ output_file' = output_file
           /\ progress_counter' = progress_counter
           /\ not_found_file' = not_found_file
           /\ pc' = "loop"
           /\ pos' = pos + 1]_vars

\* usda_foods.py has made a row for one entry and passed over the next,
\* which has no usable id
C21_Witness ==
    /\ script = "usda_foods"
    /\ outcome = "skipped"
    /\ pc = "loop"
    /\ pos = 3
    /\ filtered_food_data[2].fdcId = 0
    /\ Len(requested) = 1
    /\ RowsAppended = 1

\* C4: with max_retries = 3 and every request answered by a transient
\* HTTP 500, a fetch call sends exactly 3 requests and then returns None:
\* it neither raises nor returns the error body.
C4_BackoffTermination ==
    (FetchEnded /\ response = ErrorResponse(500)) =>
        /\ sent = max_retries
        /\ LastFetchValue = PyNone

\* C5: once a page has been answered with an empty list the listing loop
\* has stopped: no request is sent for a later page.
C5_StopsAtEmptyPage ==
    empty_page # 0 =>
        \A k \in 1..Len(page_requests) : page_requests[k] <= empty_page

\* C9: when a page request ends with a fatal status no detail request is
\* sent in the run, and the run ends with a report instead of an unhandled
\* exception.
C9_FatalAtListingAborts ==
    (/\ IsRaised(food_list_response)
     /\ IsHttpError(response)
     /\ response.status \in FatalStatuses) =>
        /\ requested = <<>>
        /\ pc # "crashed"
        /\ error = ""

====
